---- MODULE Spec2Model ----
(***************************************************************************)
(* A model of neuropal_lens (src/src/app.rs): the MyApp state, the         *)
(* per-frame handler MyApp::update with the filter it computes, the        *)
(* virtualized list painter and the three plots of worm_canvas.            *)
(*                                                                         *)
(* Strings are sequences of code points.  Coordinates are integers in      *)
(* units of 0.05 (so 0.35 is 7 and 1.5 is 30); colour channels are         *)
(* integers in units of 0.001 (so 1.0 is 1000).  Non-finite floats (NaN,   *)
(* infinities) are outside the model.                                       *)
(***************************************************************************)
EXTENDS Integers, Sequences, FiniteSets, TLC

\* ------------------------------------------------------------------ bounds
MaxQueryLen == 3
MaxViewY == 5

\* --------------------------------------------------------------- characters
TAB == 9
SPACE == 32
STAR == 42
COMMA == 44
SEMI == 59

\* the delimiters of split(&[' ', ';', ',', '\t'])
Delims == {SPACE, SEMI, COMMA, TAB}

\* the letters names and queries are made of: 'A' and 'a'
Letters == {65, 97}

QueryChars == Letters \cup Delims \cup {STAR}

SeqsUpTo(S, n) == UNION {[1..k -> S] : k \in 0..n}

Queries == SeqsUpTo(QueryChars, MaxQueryLen)

\* ------------------------------------------------------------------ Neuron
\* [name, x, y, z, r, g, b]
NeuronPool ==
  { [name |-> <<65>>,     x |-> 0,  y |-> 0,  z |-> 0,   r |-> 0,    g |-> 0,   b |-> 0],
    [name |-> <<65, 65>>, x |-> 5,  y |-> -4, z |-> -10, r |-> 0,    g |-> 0,   b |-> 0],
    [name |-> <<65, 97>>, x |-> 7,  y |-> 0,  z |-> 20,  r |-> 1000, g |-> 500, b |-> 0],
    [name |-> <<97>>,     x |-> 30, y |-> 31, z |-> -1,  r |-> 3,    g |-> 3,   b |-> 3] }

\* a HashMap<String, Neuron> keyed by the neuron's own name
Stores ==
  { [n \in {p.name : p \in S} |-> CHOOSE p \in S : p.name = n] : S \in SUBSET NeuronPool }

WormSide == {"Left", "Right", "Both"}

\* WormSide::next
WormSide_next_stuck(s) ==
  CASE s = "Left" -> "Right"
    [] s = "Right" -> "Both"
    [] s = "Both" -> "Both"

WormSide_next(s) ==
  CASE s = "Left" -> "Right"
    [] s = "Right" -> "Both"
    [] s = "Both" -> "Left"

\* ------------------------------------------------------------- text filter
\* str::split on the delimiter set: the pieces between delimiters, empty
\* pieces included (leading, trailing and between adjacent delimiters)
RECURSIVE split_from(_, _, _)
split_from(s, i, cur) ==
  IF i > Len(s) THEN <<cur>>
  ELSE IF s[i] \in Delims THEN <<cur>> \o split_from(s, i + 1, <<>>)
  ELSE split_from(s, i + 1, Append(cur, s[i]))

split(s) == split_from(s, 1, <<>>)

\* str::starts_with
starts_with(name, pat) ==
  /\ Len(pat) <= Len(name)
  /\ \A k \in 1..Len(pat) : name[k] = pat[k]

\* .filter(|x| !x.is_empty()), dropped
tokens_keep_empty(label) == split(label)

\* .filter(|x| !x.is_empty())
tokens(label) == SelectSeq(split(label), LAMBDA t : t # <<>>)

\* the first .filter closure of update
text_match(label, neuron) ==
  \E toks \in {tokens(label)} :
    \E k \in 1..Len(toks) : toks[k] = <<STAR>> \/ starts_with(neuron.name, toks[k])

\* the second .filter closure of update, with Left taking z > 0
side_match_strict(view, neuron) ==
  CASE view = "Left" -> neuron.z > 0
    [] view = "Right" -> neuron.z < 0
    [] view = "Both" -> TRUE

\* the second .filter closure of update
side_match(view, neuron) ==
  CASE view = "Left" -> neuron.z >= 0
    [] view = "Right" -> neuron.z < 0
    [] view = "Both" -> TRUE

\* ------------------------------------------------------------------- sort
\* String's Ord: lexicographic on the code points
RECURSIVE str_less_from(_, _, _)
str_less_from(a, b, i) ==
  IF i > Len(a) THEN i <= Len(b)
  ELSE IF i > Len(b) THEN FALSE
  ELSE IF a[i] # b[i] THEN a[i] < b[i]
  ELSE str_less_from(a, b, i + 1)

str_less(a, b) == str_less_from(a, b, 1)

\* insert one neuron into a vector already sorted by name
RECURSIVE insert_by_name(_, _)
insert_by_name(v, e) ==
  IF v = <<>> THEN <<e>>
  ELSE IF str_less(e.name, v[1].name) THEN <<e>> \o v
  ELSE <<v[1]>> \o insert_by_name(Tail(v), e)

RECURSIVE sort_from(_, _)
sort_from(v, acc) ==
  IF v = <<>> THEN acc ELSE sort_from(Tail(v), insert_by_name(acc, v[1]))

\* the sort left out
sort_skipped(v) == v

\* data.sort_unstable_by_key(|x| &x.name)
sort_unstable_by_key(v) == sort_from(v, <<>>)

\* self.data.values().filter(..).filter(..).collect(), then the sort;
\* order is the HashMap's iteration order
visible_set(store, order, label, view) ==
  LET all == [k \in 1..Len(order) |-> store[order[k]]]
      kept == SelectSeq(all, LAMBDA n : text_match(label, n) /\ side_match(view, n))
  IN  sort_unstable_by_key(kept)


\* the iteration orders a HashMap holding these keys can have
Orders(store) ==
  { o \in [1..Cardinality(DOMAIN store) -> DOMAIN store] :
      \A i, j \in DOMAIN o : i # j => o[i] # o[j] }

\* two of them: the keys ascending and the keys descending
TwoOrders(store) ==
  { o \in Orders(store) :
      \/ \A i \in 1..(Len(o) - 1) : str_less(o[i], o[i + 1])
      \/ \A i \in 1..(Len(o) - 1) : str_less(o[i + 1], o[i]) }

\* ------------------------------------------------------------------ colour
\* Color32 as <<r, g, b, a>>
WHITE == <<255, 255, 255, 255>>
BLACK == <<0, 0, 0, 255>>

from_rgb(r, g, b) == <<r, g, b, 255>>

\* a float-to-u8 `as` cast: truncates toward zero and saturates
as_u8(num, den) ==
  IF num <= 0 THEN 0 ELSE IF num \div den > 255 THEN 255 ELSE num \div den

\* Neuron::rgb: (c * 255.).clamp(0., 255.) as u8, c in thousandths
rgb(neuron) ==
  << as_u8(neuron.r * 255, 1000), as_u8(neuron.g * 255, 1000), as_u8(neuron.b * 255, 1000) >>

\* Neuron::luminance, in units of 1e-7
luminance(neuron) == 2126 * neuron.r + 7152 * neuron.g + 722 * neuron.b

\* Color32::gamma_multiply(0.8): every channel c becomes (c * 0.8 + 0.5) as u8
gamma_multiply(c) == [k \in 1..4 |-> (c[k] * 8 + 5) \div 10]

\* the marker colour of the three plots
marker_color(neuron, is_dark) ==
  LET c8 == rgb(neuron)
      color == IF c8[1] = 0 /\ c8[2] = 0 /\ c8[3] = 0 /\ is_dark
               THEN WHITE ELSE from_rgb(c8[1], c8[2], c8[3])
  IN  IF neuron.z < 0 THEN gamma_multiply(color) ELSE color

\* ---------------------------------------------------- huge_content_painter
\* a float-to-usize `as` cast of an integral value: negative saturates to 0
as_usize(v) == IF v < 0 THEN 0 ELSE v

\* (a / h).floor() and (a / h).ceil(), h > 0
floor_div(a, h) == a \div h
ceil_div(a, h) == -((-a) \div h)

at_least(v, lo) == IF v < lo THEN lo ELSE v
at_most(v, hi) == IF v > hi THEN hi ELSE v

\* last_item without the + 1
last_item_tight(vmax, row_height, num_rows) ==
  at_most(as_usize(ceil_div(vmax, row_height)), num_rows)

first_item(vmin, row_height) == as_usize(at_least(floor_div(vmin, row_height), 0))

last_item(vmax, row_height, num_rows) ==
  at_most(as_usize(ceil_div(vmax, row_height)) + 1, num_rows)

\* the row background without the substitution of white for (0, 0, 0)
row_background_raw(neuron) ==
  LET r == as_u8(neuron.r * 255, 1000)
      g == as_u8(neuron.g * 255, 1000)
      b == as_u8(neuron.b * 255, 1000)
  IN  from_rgb(r, g, b)

\* the row background: the 8-bit colour, white when it is (0, 0, 0)
row_background(neuron) ==
  LET r == as_u8(neuron.r * 255, 1000)
      g == as_u8(neuron.g * 255, 1000)
      b == as_u8(neuron.b * 255, 1000)
  IN  IF r = 0 /\ g = 0 /\ b = 0 THEN from_rgb(255, 255, 255) ELSE from_rgb(r, g, b)

\* black if lut == 0.0 || lut > 0.5, else white
text_color(neuron) ==
  LET lut == luminance(neuron)
  IN  IF lut = 0 \/ lut > 5000000 THEN BLACK ELSE WHITE

\* the rows drawn: for i in first_item..last_item, data.get(i); i counts from 0
huge_content_painter(vec, vmin, vmax, row_height) ==
  LET num_rows == Len(vec)
      first == first_item(vmin, row_height)
      last == last_item(vmax, row_height, num_rows)
  IN  { [i |-> i, name |-> vec[i + 1].name, bg |-> row_background(vec[i + 1]),
         text_color |-> text_color(vec[i + 1])] :
        i \in { j \in first..(last - 1) : j < num_rows } }

\* ------------------------------------------------------------ worm_canvas
\* let thickness = 1.5
thickness == 30

\* the highlight distance 0.35
hover_radius == 7

None == <<>>

\* l2_dist squared: sqrt is monotonic, so l2_dist < 0.35 is compared on the squares
l2_dist_sq(x1, x2, y1, y2) == (x1 - x2) * (x1 - x2) + (y1 - y2) * (y1 - y2)

\* pos.is_some_and(|pos| l2_dist(neuron.x, pos.x, neuron.y, pos.y) < 0.35)
near_hover(neuron, pos) ==
  /\ pos # None
  /\ l2_dist_sq(neuron.x, pos[1], neuron.y, pos[2]) < hover_radius * hover_radius

Elems(vec) == {vec[k] : k \in 1..Len(vec)}

Markers(S, is_dark) == {[name |-> n.name, color |-> marker_color(n, is_dark)] : n \in S}

\* the primary plot: one marker per neuron of the vector
xy_plot(vec, is_dark) == Markers(Elems(vec), is_dark)

\* the anterior view's loop with >= and <= in the skip test
yz_drawn_open(vec, pos) ==
  { n \in Elems(vec) :
      pos = None \/ ~(n.x <= pos[1] - thickness \/ n.x >= pos[1] + thickness) }

\* the anterior view's loop: the neurons not skipped by `continue`
yz_drawn(vec, pos) ==
  { n \in Elems(vec) :
      pos = None \/ ~(n.x < pos[1] - thickness \/ n.x > pos[1] + thickness) }

\* the dorsal view's loop with the test against x_bound left out
xz_drawn_unbounded(vec, pos, x_bound) ==
  { n \in Elems(vec) :
      pos = None \/ ~(n.y < pos[2] - thickness \/ n.y > pos[2] + thickness) }

\* the dorsal view's loop: the neurons not skipped by `continue`
xz_drawn(vec, pos, x_bound) ==
  { n \in Elems(vec) :
      /\ pos = None \/ ~(n.y < pos[2] - thickness \/ n.y > pos[2] + thickness)
      /\ ~(n.x < x_bound[1] \/ n.x > x_bound[2]) }

\* the highlight test with <= in place of <
highlighted_inclusive(drawn, pos) ==
  { n.name : n \in { m \in drawn :
      pos # None /\ l2_dist_sq(m.x, pos[1], m.y, pos[2]) <= hover_radius * hover_radius } }

\* the names given the reference line, the outline marker and the label
highlighted(drawn, pos) == { n.name : n \in { m \in drawn : near_hover(m, pos) } }


\* ------------------------------------------------------------------- state
VARIABLES
  label,            \* MyApp.label: the query
  data,             \* MyApp.data: the HashMap name -> Neuron
  iter_order,       \* the order data.values() yields (fixed for the map's life)
  show_side_panel,  \* MyApp.show_side_panel
  view_side,        \* MyApp.view_side
  data_vec,         \* update's local `data`: the vector handed to the painters
  list_rows,        \* rows drawn by huge_content_painter in the last frame
  xy_points,        \* markers of the primary plot
  yz_points,        \* markers of the anterior view
  xz_points,        \* markers of the dorsal view
  yz_marks,         \* names given VLine + outline + label in the anterior view
  xz_marks,         \* names given HLine + outline + label in the dorsal view
  yz_hline,         \* the anterior view's HLine at pos.y, or None
  xz_vline,         \* the dorsal view's VLine at pos.x, or None
  pos,              \* the hover position of the last frame, or None
  is_dark,          \* ctx.theme() == Theme::Dark in the last frame
  viewport,         \* <<viewport.min.y, viewport.max.y>> of the scroll area
  row_height,       \* the list's row height
  x_bound,          \* the primary plot's horizontal bounds <<min, max>>
  event,            \* what the user did in the last frame
  drawn,            \* a frame has been drawn
  side_hist         \* view_side at start and after the last activations (at most 4)

vars == << label, data, iter_order, show_side_panel, view_side, data_vec, list_rows,
           xy_points, yz_points, xz_points, yz_marks, xz_marks, yz_hline, xz_vline,
           pos, is_dark, viewport, row_height, x_bound, event, drawn, side_hist >>

Events == {"idle", "filter_panel", "body_side", "edit"}

\* the inputs the frames draw from
EditQueries == { <<STAR>>, <<65>>, <<97, SEMI>>, <<>>, <<SPACE, 65, 65>> }
Hovers == { <<0, 0>>, <<6, 0>>, <<30, 30>> }
XBounds == { <<-100, 100>>, <<6, 40>>, <<0, 30>> }
RowHeights == {2, 3}
ViewYs == (0 - MaxViewY)..MaxViewY
DefaultViewport == <<0, MaxViewY>>
DefaultXBound == <<-100, 100>>

\* MyApp::new: the defaults, or any persisted label, panel flag and side
InitWith(labels, every_order, heights, shows) ==
  /\ label \in labels
  /\ data \in Stores
  /\ iter_order \in IF every_order THEN Orders(data) ELSE TwoOrders(data)
  /\ show_side_panel \in shows
  /\ view_side \in WormSide
  /\ data_vec = <<>>
  /\ list_rows = {}
  /\ xy_points = {}
  /\ yz_points = {}
  /\ xz_points = {}
  /\ yz_marks = {}
  /\ xz_marks = {}
  /\ yz_hline = None
  /\ xz_vline = None
  /\ pos = None
  /\ is_dark = FALSE
  /\ viewport = DefaultViewport
  /\ row_height \in heights
  /\ x_bound = DefaultXBound
  /\ event = "idle"
  /\ drawn = FALSE
  /\ side_hist = <<view_side>>

\* the vector is collected with the label and side as they are after the widgets ran
frame_vec_late(label_before, view_before, label_after, view_after) ==
  visible_set(data, iter_order, label_after, view_after)

\* lines 163-178 run before the side panel's widgets (180-217): the vector is
\* collected from the label and side the frame started with
frame_vec(label_before, view_before, label_after, view_after) ==
  visible_set(data, iter_order, label_before, view_before)

LastN(s, n) == IF Len(s) <= n THEN s ELSE SubSeq(s, Len(s) - n + 1, Len(s))

\* MyApp::update: one frame.  ev is the user's act, q the text typed (ev = "edit"),
\* p the hover position in the primary plot, dark the theme, vp and h the scroll
\* viewport and row height, bnd the primary plot's horizontal bounds
update(ev, q, p, dark, vp, h, bnd) ==
  LET show == IF ev = "filter_panel" THEN ~show_side_panel ELSE show_side_panel
      view_after == IF ev = "body_side" THEN WormSide_next(view_side) ELSE view_side
      label_after == IF ev = "edit" THEN q ELSE label
  IN  \* the Body Side button and the text field exist only in the shown panel
      /\ ev \in {"body_side", "edit"} => show
      \* a click lands on a button, so the pointer is not over the plot
      /\ ev \in {"filter_panel", "body_side"} => p = None
      \* a hover position lies within the plot's bounds
      /\ p # None => bnd[1] <= p[1] /\ p[1] <= bnd[2]
      /\ show_side_panel' = show
      /\ data_vec' = frame_vec(label, view_side, label_after, view_after)
      /\ view_side' = view_after
      /\ label' = label_after
      /\ list_rows' = IF show THEN huge_content_painter(data_vec', vp[1], vp[2], h) ELSE {}
      /\ xy_points' = xy_plot(data_vec', dark)
      /\ \E yz \in {yz_drawn(data_vec', p)} :
            /\ yz_points' = Markers(yz, dark)
            /\ yz_marks' = highlighted(yz, p)
      /\ \E xz \in {xz_drawn(data_vec', p, bnd)} :
            /\ xz_points' = Markers(xz, dark)
            /\ xz_marks' = highlighted(xz, p)
      /\ yz_hline' = IF p # None THEN <<p[2]>> ELSE None
      /\ xz_vline' = IF p # None THEN <<p[1]>> ELSE None
      /\ pos' = p
      /\ is_dark' = dark
      /\ viewport' = vp
      /\ row_height' = h
      /\ x_bound' = bnd
      /\ event' = ev
      /\ drawn' = TRUE
      /\ side_hist' = IF ev = "body_side"
                      THEN LastN(Append(side_hist, view_after), 4) ELSE side_hist
      /\ UNCHANGED << data, iter_order >>

\* ---------------------------------------------------------- specifications
\* frames with the user's acts: nothing, a click on Filter Panel, a click on
\* Body Side, an edit of the search text
Idle ==
  \E p \in {None, <<0, 0>>} :
    update("idle", label, p, is_dark, viewport, row_height, x_bound)

ClickFilterPanel ==
  update("filter_panel", label, None, is_dark, viewport, row_height, x_bound)

ClickBodySide ==
  update("body_side", label, None, is_dark, viewport, row_height, x_bound)

EditLabel ==
  \E q \in EditQueries :
    update("edit", q, None, is_dark, viewport, row_height, x_bound)

Init == InitWith(EditQueries, TRUE, {2}, BOOLEAN)

Next == Idle \/ ClickFilterPanel \/ ClickBodySide \/ EditLabel

Spec == Init /\ [][Next]_vars

\* the filter as a function of query, side and store: frames that only redraw
Redraw == update("idle", label, None, FALSE, viewport, row_height, x_bound)

InitFilter == InitWith(Queries, FALSE, {2}, {TRUE})

NextFilter == Redraw

SpecFilter == InitFilter /\ [][NextFilter]_vars

\* the list under scrolling and resizing of the scroll area
Scroll ==
  \E dmin \in {-1, 0, 1}, dmax \in {-1, 0, 1} :
    /\ viewport[1] + dmin \in ViewYs
    /\ viewport[2] + dmax \in ViewYs
    /\ update("idle", label, None, FALSE,
              <<viewport[1] + dmin, viewport[2] + dmax>>, row_height, x_bound)

InitList == InitWith({<<STAR>>}, FALSE, RowHeights, {TRUE})

NextList == Scroll

SpecList == InitList /\ [][NextList]_vars

\* the plots under pointer moves, zoom and pan of the primary plot and theme changes
Hover ==
  \E p \in Hovers \cup {None}, bnd \in XBounds, dark \in BOOLEAN :
    update("idle", label, p, dark, viewport, row_height, bnd)

InitCanvas == InitWith({<<STAR>>, <<65>>}, FALSE, {2}, {TRUE})

NextCanvas == Hover

SpecCanvas == InitCanvas /\ [][NextCanvas]_vars


\* ------------------------------------------------------------------ claims
Names(vec) == {vec[k].name : k \in 1..Len(vec)}

\* space, semicolon, comma, tab
QueryDelimiters == {32, 59, 44, 9}

\* q[i..j] is a maximal run of non-delimiters of q
IsToken(q, i, j) ==
  /\ 1 <= i /\ i <= j /\ j <= Len(q)
  /\ \A k \in i..j : q[k] \notin QueryDelimiters
  /\ i = 1 \/ q[i - 1] \in QueryDelimiters
  /\ j = Len(q) \/ q[j + 1] \in QueryDelimiters

\* some token of q is "*" or a prefix of name
QueryAccepts(q, name) ==
  \E i \in 1..Len(q), j \in 1..Len(q) :
    /\ IsToken(q, i, j)
    /\ \/ SubSeq(q, i, j) = <<42>>
       \/ /\ j - i + 1 <= Len(name)
          /\ SubSeq(name, 1, j - i + 1) = SubSeq(q, i, j)

HemisphereAccepts(view, z) ==
  \/ view = "Both"
  \/ view = "Left" /\ z >= 0
  \/ view = "Right" /\ z < 0

\* C1: a point is in the visible set iff some non-empty token of the query
\* (split on space, semicolon, comma, tab) is "*" or a case-sensitive prefix of
\* its name, and its hemisphere passes; an empty or all-delimiter query matches
\* nothing, and "*" under Both matches every point of the store.
C1_TextFilter ==
  drawn =>
    /\ \A n \in DOMAIN data :
         n \in Names(data_vec)
           <=> (QueryAccepts(label, n) /\ HemisphereAccepts(view_side, data[n].z))
    /\ (\A k \in 1..Len(label) : label[k] \in QueryDelimiters) => data_vec = <<>>
    /\ (label = <<42>> /\ view_side = "Both") => Names(data_vec) = DOMAIN data

\* a query with a delimiter in it that matches some points of the store, not all
C1_Witness ==
  /\ drawn
  /\ view_side = "Both"
  /\ \E k \in 1..Len(label) : label[k] \in QueryDelimiters
  /\ data_vec # <<>>
  /\ Len(data_vec) < Cardinality(DOMAIN data)

\* C2: for a fixed store and query, visible(Left) and visible(Right) are disjoint,
\* their union is visible(Both), and a point with z = 0 is in visible(Left) and
\* not in visible(Right); the vector drawn is the one of the current selection.
C2_HemispherePartition ==
  LET L == Names(visible_set(data, iter_order, label, "Left"))
      R == Names(visible_set(data, iter_order, label, "Right"))
      B == Names(visible_set(data, iter_order, label, "Both"))
  IN  /\ L \cup R = B
      /\ L \cap R = {}
      /\ \A n \in B : data[n].z = 0 => (n \in L /\ n \notin R)
      /\ \A n \in L : data[n].z >= 0
      /\ \A n \in R : data[n].z < 0
      /\ drawn => Names(data_vec) = (CASE view_side = "Left" -> L
                                       [] view_side = "Right" -> R
                                       [] view_side = "Both" -> B)

\* Left is drawn, with a z = 0 point in it, while the query also matches a z < 0 point
C2_Witness ==
  /\ drawn
  /\ view_side = "Left"
  /\ \E k \in 1..Len(data_vec) : data_vec[k].z = 0
  /\ \E n \in DOMAIN data : data[n].z < 0 /\ QueryAccepts(label, n)

\* a is before b in lexical order
LexBefore(a, b) ==
  \E i \in 1..(Len(b)) :
    /\ \A k \in 1..(i - 1) : k <= Len(a) /\ a[k] = b[k]
    /\ i > Len(a) \/ (i <= Len(a) /\ a[i] < b[i])

StrictlyAscending(vec) ==
  \A k \in 1..(Len(vec) - 1) : LexBefore(vec[k].name, vec[k + 1].name)

\* C3: the visible set is strictly ascending by name in every frame; a frame
\* leaves the store unchanged, and a frame after one in which query and selector
\* were not changed computes the identical sequence.
C3_SortedAndPure ==
  /\ [](drawn => StrictlyAscending(data_vec))
  /\ [][data' = data /\ iter_order' = iter_order]_vars
  /\ [][(drawn /\ event \in {"idle", "filter_panel"}) => data_vec' = data_vec]_vars

\* three or more points are visible although the map yields them out of order
C3_Witness ==
  /\ drawn
  /\ Len(data_vec) >= 3
  /\ \E i \in 1..Len(iter_order), j \in 1..Len(iter_order) :
       i < j /\ LexBefore(iter_order[j], iter_order[i])


RowIndices == {r.i : r \in list_rows}

\* floor(a / h) and ceil(a / h) for h > 0
FloorOf(a, h) == CHOOSE q \in (0 - 2 * MaxViewY - 2)..(2 * MaxViewY + 2) : q * h <= a /\ a < (q + 1) * h
CeilOf(a, h) == CHOOSE q \in (0 - 2 * MaxViewY - 2)..(2 * MaxViewY + 2) : (q - 1) * h < a /\ a <= q * h
MaxOf(a, b) == IF a >= b THEN a ELSE b
MinOf(a, b) == IF a <= b THEN a ELSE b

\* C4 as stated: the rows drawn are exactly
\* [max(0, floor(min/h)), min(total, ceil(max/h) + 1)), for any viewport.
C4_AsStated ==
  drawn =>
    RowIndices =
      { i \in 0..Len(data_vec) :
          /\ MaxOf(0, FloorOf(viewport[1], row_height)) <= i
          /\ i < MinOf(Len(data_vec), CeilOf(viewport[2], row_height) + 1) }

\* C4 (amended): the rows drawn are exactly
\* [max(0, floor(min/h)), min(total, max(0, ceil(max/h)) + 1)): ceil(max/h) is
\* clamped at 0 before the + 1; nothing outside is drawn, nothing with total = 0.
C4_DrawnRange ==
  drawn =>
    /\ RowIndices =
         { i \in 0..Len(data_vec) :
             /\ MaxOf(0, FloorOf(viewport[1], row_height)) <= i
             /\ i < MinOf(Len(data_vec), MaxOf(0, CeilOf(viewport[2], row_height)) + 1) }
    /\ \A r \in list_rows : r.i < Len(data_vec) /\ r.name = data_vec[r.i + 1].name
    /\ Len(data_vec) = 0 => list_rows = {}

\* a viewport whose lower edge is a whole row or more above the content, row 0 drawn
C4_Witness ==
  /\ drawn
  /\ viewport[2] <= 0 - row_height
  /\ 0 \in RowIndices

Visible == {data_vec[k] : k \in 1..Len(data_vec)}

\* within 0.35 of the hover position on (x, y): 0.35 is 7 units, compared squared
Within035(n) ==
  /\ pos # <<>>
  /\ (n.x - pos[1]) * (n.x - pos[1]) + (n.y - pos[2]) * (n.y - pos[2]) < 49

InPrimaryBounds(n) == x_bound[1] <= n.x /\ n.x <= x_bound[2]

\* C5 as stated: with a hover position, exactly the visible points within 0.35 of
\* it are highlighted, in both auxiliary views.
C5_AsStated ==
  (drawn /\ pos # <<>>) =>
    /\ yz_marks = {n.name : n \in {m \in Visible : Within035(m)}}
    /\ xz_marks = {n.name : n \in {m \in Visible : Within035(m)}}

\* C5 (amended): with a hover position, the anterior view highlights exactly the
\* visible points within 0.35 of it; the dorsal view highlights exactly those of
\* them whose x lies within the primary view's horizontal bounds.
C5_Highlight ==
  (drawn /\ pos # <<>>) =>
    /\ yz_marks = {n.name : n \in {m \in Visible : Within035(m)}}
    /\ xz_marks = {n.name : n \in {m \in Visible : Within035(m) /\ InPrimaryBounds(m)}}

\* two points highlighted in the anterior view, a point at exactly 0.35 or more
\* left out, and one of the two missing in the dorsal view
C5_Witness ==
  /\ drawn /\ pos # <<>>
  /\ Cardinality(yz_marks) >= 2
  /\ \E n \in Visible : ~Within035(n)
  /\ xz_marks # yz_marks

MarkerNames(S) == {m.name : m \in S}

\* C6 as stated: without a hover position nothing is highlighted, no reference
\* line is drawn, and every visible point is a marker in both auxiliary views.
C6_AsStated ==
  (drawn /\ pos = <<>>) =>
    /\ yz_marks = {} /\ xz_marks = {}
    /\ yz_hline = <<>> /\ xz_vline = <<>>
    /\ MarkerNames(yz_points) = Names(data_vec)
    /\ MarkerNames(xz_points) = Names(data_vec)

\* C6 (amended): without a hover position nothing is highlighted and no reference
\* line is drawn; every visible point is a marker in the anterior view, and in
\* the dorsal view exactly the visible points whose x lies within the primary
\* view's horizontal bounds are.
C6_NoHover ==
  (drawn /\ pos = <<>>) =>
    /\ yz_marks = {} /\ xz_marks = {}
    /\ yz_hline = <<>> /\ xz_vline = <<>>
    /\ MarkerNames(yz_points) = Names(data_vec)
    /\ MarkerNames(xz_points) = {n.name : n \in {m \in Visible : InPrimaryBounds(m)}}

\* no hover, and a visible point outside the primary view's horizontal bounds
C6_Witness ==
  /\ drawn /\ pos = <<>>
  /\ \E n \in Visible : ~InPrimaryBounds(n)
  /\ \E n \in Visible : InPrimaryBounds(n)
  /\ MarkerNames(xz_points) # MarkerNames(yz_points)

IsBlackPoint(name) == data[name].r = 0 /\ data[name].g = 0 /\ data[name].b = 0

AllMarkers == xy_points \cup yz_points \cup xz_points

\* C7 as stated: a point with r = g = b = 0 has a white list-row background and a
\* white marker in every plot, whatever the theme and the sign of z.
C7_AsStated ==
  drawn =>
    /\ \A r \in list_rows : IsBlackPoint(r.name) => r.bg = <<255, 255, 255, 255>>
    /\ \A m \in AllMarkers : IsBlackPoint(m.name) => m.color = <<255, 255, 255, 255>>

\* C7 (amended): a point with r = g = b = 0 always has a white list-row
\* background; its marker is white under the dark theme (every channel 204, the
\* 0.8 dimming, when z < 0) and black under the light theme.
C7_BlackFallback ==
  drawn =>
    /\ \A r \in list_rows : IsBlackPoint(r.name) => r.bg = <<255, 255, 255, 255>>
    /\ \A m \in AllMarkers :
         IsBlackPoint(m.name) =>
           m.color = (CASE is_dark /\ data[m.name].z >= 0 -> <<255, 255, 255, 255>>
                        [] is_dark /\ data[m.name].z < 0 -> <<204, 204, 204, 204>>
                        [] ~is_dark /\ data[m.name].z >= 0 -> <<0, 0, 0, 255>>
                        [] ~is_dark /\ data[m.name].z < 0 -> <<0, 0, 0, 204>>)

\* light theme: a black point has its row drawn and its marker in all three plots
C7_Witness ==
  /\ drawn /\ ~is_dark
  /\ \E r \in list_rows :
       /\ IsBlackPoint(r.name)
       /\ r.name \in MarkerNames(xy_points) \cap MarkerNames(yz_points) \cap MarkerNames(xz_points)

CycleStep(a, b) ==
  \/ a = "Left" /\ b = "Right"
  \/ a = "Right" /\ b = "Both"
  \/ a = "Both" /\ b = "Left"

\* C8: the selector is Left, Right or Both; each activation of Body Side moves it
\* one step along Left -> Right -> Both -> Left, so three activations bring it
\* back; a frame without an activation, or with the panel hidden, leaves it alone.
C8_SideCycle ==
  /\ [](/\ view_side \in {"Left", "Right", "Both"}
        /\ view_side = side_hist[Len(side_hist)]
        /\ \A k \in 1..(Len(side_hist) - 1) : CycleStep(side_hist[k], side_hist[k + 1])
        /\ Len(side_hist) = 4 => side_hist[4] = side_hist[1])
  /\ [][event' = "body_side" => CycleStep(view_side, view_side')]_vars
  /\ [][(event' # "body_side" \/ ~show_side_panel') => view_side' = view_side]_vars

\* three activations have been made, the last one in this frame
C8_Witness ==
  /\ event = "body_side"
  /\ Len(side_hist) = 4

InSlab(v, h) == h - 30 <= v /\ v <= h + 30

\* C9: with a hover position (hx, hy) the anterior view draws exactly the visible
\* points with hx - 1.5 <= x <= hx + 1.5, the dorsal view exactly those with
\* hy - 1.5 <= y <= hy + 1.5 and x within the primary view's horizontal bounds
\* (inclusive); highlighted points are among them, drawn as markers too.
C9_Slabs ==
  (drawn /\ pos # <<>>) =>
    /\ MarkerNames(yz_points) = {n.name : n \in {m \in Visible : InSlab(m.x, pos[1])}}
    /\ MarkerNames(xz_points) =
         {n.name : n \in {m \in Visible : InSlab(m.y, pos[2]) /\ InPrimaryBounds(m)}}
    /\ yz_marks \subseteq MarkerNames(yz_points)
    /\ xz_marks \subseteq MarkerNames(xz_points)
    /\ \A m \in yz_points \cup xz_points : m \in xy_points

\* a visible point exactly 1.5 from the hover in x is drawn in the anterior view,
\* another is highlighted, and the dorsal view leaves some visible point out
C9_Witness ==
  /\ drawn /\ pos # <<>>
  /\ \E n \in Visible : n.x = pos[1] + 30 /\ n.name \in MarkerNames(yz_points)
  /\ yz_marks # {}
  /\ MarkerNames(xz_points) # Names(data_vec)

\* C10: every painter of a frame gets the one vector computed from the query and
\* selector the frame started with: the list (all rows in view), the primary
\* plot and the auxiliary plots draw from it, and what the widgets change in
\* the frame shows only in the next frame's vector.
C10_FrameSnapshot ==
  [][ LET v == visible_set(data, iter_order, label, view_side)
      IN  /\ data_vec' = v
          /\ MarkerNames(xy_points') = Names(v)
          /\ show_side_panel' => {r.name : r \in list_rows'} = Names(v)
          /\ MarkerNames(yz_points') \subseteq Names(v)
          /\ MarkerNames(xz_points') \subseteq Names(v)
          /\ pos' = <<>> => (MarkerNames(yz_points') = Names(v)
                             /\ MarkerNames(xz_points') = Names(v)) ]_vars

\* a frame with a Body Side click or an edit has drawn a set that the new
\* selector and query would not give
C10_Witness ==
  /\ event \in {"body_side", "edit"}
  /\ Names(data_vec) # Names(visible_set(data, iter_order, label, view_side))
  /\ show_side_panel
  /\ {r.name : r \in list_rows} = Names(data_vec)

\* the 8-bit colour of the point is (0, 0, 0): every channel times 255 is below 1
EightBitBlack(name) ==
  /\ data[name].r * 255 < 1000
  /\ data[name].g * 255 < 1000
  /\ data[name].b * 255 < 1000

\* C11: for every point colour with channels in [0, 1], the text colour of a
\* list row differs from the background drawn for it; whenever the background
\* is white because the 8-bit colour is (0, 0, 0), the text is black.
C11_TextContrast ==
  drawn =>
    \A r \in list_rows :
      /\ r.text_color # r.bg
      /\ EightBitBlack(r.name) => r.text_color = <<0, 0, 0, 255>>

====
